---- MODULE Spec2Model ----
(***************************************************************************)
(* Model of the sea256 keyed mixing hash (src/src/sea.ts) and of the       *)
(* HashTester measurement harness (src/src/hashTester.ts).                 *)
(*                                                                         *)
(* A JavaScript number that holds a 32-bit quantity is written as a pair   *)
(* <<h, l>> denoting h * 65536 + l.  A value returned by `>>> 0` or stored *)
(* in a Uint32Array is normalised: both halves lie in 0..65535.            *)
(***************************************************************************)
EXTENDS Integers, Sequences, FiniteSets, TLC

\* ------------------------------------------------------------------------
\* Bounds of the model
\* ------------------------------------------------------------------------
MaxLen == 2            \* longest input handed to sea256Raw
MaxCalls == 2          \* invocations of sea256Raw that are followed
MaxTrials == 3         \* largest flips / attempts / iterations argument
MaxChars == 2          \* longest string handed to flipBit and diffusion

\* the bytes inputs are made of, and the keys tried
InputBytes == {97, 225}
Keys == {<<>>, <<0>>, <<1>>, <<7, 200>>}

RECURSIVE SeqsUpTo(_, _)
SeqsUpTo(S, n) ==
  IF n = 0 THEN {<<>>}
  ELSE LET shorter == SeqsUpTo(S, n - 1)
       IN shorter \cup {Append(q, e) : q \in shorter, e \in S}

Inputs == SeqsUpTo(InputBytes, MaxLen)

\* the code points strings are made of: a, e-acute, the euro sign
Chars == {97, 233, 8364}
Strings == SeqsUpTo(Chars, MaxChars)

\* what crypto.randomBytes(n) may return
RandomBuffers(n) ==
  {[m \in 1..n |-> IF m % 2 = 1 THEN b1 ELSE b2] : b1, b2 \in InputBytes}

\* ------------------------------------------------------------------------
\* Arithmetic on 16-bit halves
\* ------------------------------------------------------------------------
RECURSIVE Pow2(_)
Pow2(n) == IF n = 0 THEN 1 ELSE 2 * Pow2(n - 1)

Half == 256 * 256

\* x ^ y on two values below 2^n
RECURSIVE XorBits(_, _, _)
XorBits(x, y, n) ==
  IF n = 0 THEN 0
  ELSE (((x % 2) + (y % 2)) % 2) + 2 * XorBits(x \div 2, y \div 2, n - 1)

\* x & y on two values below 2^n
RECURSIVE AndBits(_, _, _)
AndBits(x, y, n) ==
  IF n = 0 THEN 0
  ELSE ((x % 2) * (y % 2)) + 2 * AndBits(x \div 2, y \div 2, n - 1)

\* number of significant bits of x >= 0
RECURSIVE BitLen(_)
BitLen(x) == IF x = 0 THEN 0 ELSE 1 + BitLen(x \div 2)

Word(h, l) == <<h, l>>

\* a ^ b and a & b on normalised words (the int32 result seen as its bits)
Xor32(a, b) == <<XorBits(a[1], b[1], 16), XorBits(a[2], b[2], 16)>>
And32(a, b) == <<AndBits(a[1], b[1], 16), AndBits(a[2], b[2], 16)>>

\* exact sum of two numbers (no wrap)
Plus(a, b) == <<a[1] + b[1], a[2] + b[2]>>

\* a byte (or any value below 65536) as a number
Num(u) == <<0, u>>

\* ------------------------------------------------------------------------
\* config (sea.ts:4-46)
\* ------------------------------------------------------------------------
InitialValues ==
  << Word(10, 40982),      \* 696342
     Word(61200, 18685),   \* floor(3.86e26 % 0xffffffff) >>> 0 = 4010821885
     Word(2, 13387),       \* floor(sqrt(4.5682 * 4568200000)) = 144459
     Word(16, 26773),      \* floor(sqrt(1156377600000)) = 1075349
     Word(1, 31730),       \* floor(sqrt(9460730472)) = 97266
     Word(0, 65535),       \* floor(sqrt(4294967231))
     Word(0, 65535),       \* floor(sqrt(4294967279))
     Word(0, 65535) >>     \* floor(sqrt(4294967291))

rotLeftAmount == 5
rotRightAmount == 3
scale == Word(47073, 20834)      \* 0xb7e15162
grow == Word(40503, 31161)       \* 0x9e3779b9
flip == Word(32586, 31765)       \* 0x7f4a7c15
collapse == Word(9279, 27272)    \* 0x243f6a88
nlShift == 7
roundsPerByte == 3

\* ------------------------------------------------------------------------
\* utils (sea.ts:50-64)
\* ------------------------------------------------------------------------
\* x >>> 0 for a non-negative number x
wrap32(x) == <<(x[1] + (x[2] \div Half)) % Half, x[2] % Half>>

\* (-x) >>> 0 for a normalised word x: ToInt32 of a negative number
Neg32(x) ==
  IF x[2] = 0 THEN <<(Half - x[1]) % Half, 0>>
  ELSE <<Half - 1 - x[1], Half - x[2]>>

\* x << n followed by >>> 0, 0 < n < 16
Shl32(x, n) ==
  <<((x[1] * Pow2(n)) % Half) + (x[2] \div Pow2(16 - n)), (x[2] * Pow2(n)) % Half>>

\* x >>> n, 0 < n < 16
Shr32(x, n) ==
  <<x[1] \div Pow2(n), (x[1] % Pow2(n)) * Pow2(16 - n) + (x[2] \div Pow2(n))>>

\* The two shifted parts of a rotation have no bit in common, so | is their
\* sum.  Both are written for 0 < n < 16, which covers the configured amounts.
rotL(x, n) == wrap32(Plus(Shl32(x, n), <<0, x[1] \div Pow2(16 - n)>>))

rotR(x, n) == wrap32(Plus(Shr32(x, n), <<(x[2] % Pow2(n)) * Pow2(16 - n), 0>>))

\* an int32 (the result of ^ or &) as sign and magnitude
Signed(x) ==
  IF x[1] >= 32768 THEN [neg |-> TRUE, mag |-> IF x[2] = 0
                                                 THEN <<Half - x[1], 0>>
                                                 ELSE <<Half - 1 - x[1], Half - x[2]>>]
  ELSE [neg |-> FALSE, mag |-> x]

\* sum of two sign-magnitude integers, as sign and magnitude (mag[1] <= 65536)
SignedSum(p, q) ==
  LET sh(s) == IF s.neg THEN 0 - s.mag[1] ELSE s.mag[1]
      sl(s) == IF s.neg THEN 0 - s.mag[2] ELSE s.mag[2]
      h0 == sh(p) + sh(q)
      l0 == sl(p) + sl(q)
      \* bring the low half into 0..65535 (l0 is in -131070..131070)
      c == IF l0 < 0 THEN 0 - ((Half - 1 - l0) \div Half) ELSE l0 \div Half
      l == l0 - c * Half
      h == h0 + c
  IN IF h < 0
     THEN [neg |-> TRUE,
           mag |-> IF l = 0 THEN <<0 - h, 0>> ELSE <<0 - h - 1, Half - l>>]
     ELSE [neg |-> FALSE, mag |-> <<h, l>>]

zetaValue(alpha, beta) ==
  SignedSum(Signed(Xor32(alpha, beta)), Signed(And32(alpha, beta)))

\* ------------------------------------------------------------------------
\* The product scale * zeta as an IEEE-754 double, then ToInt32 (sea.ts:76)
\* ------------------------------------------------------------------------
Limb == 64 * 64

\* a magnitude <<h, l>> (h <= 65536) as three base-4096 limbs, low first
Limbs(m) ==
  <<m[2] % Limb, (m[2] \div Limb) + (m[1] % 256) * 16, m[1] \div 256>>

\* exact product of two three-limb numbers as six limbs, low first
MulLimbs(a, b) ==
  LET c0 == a[1] * b[1]
      c1 == a[1] * b[2] + a[2] * b[1] + (c0 \div Limb)
      c2 == a[1] * b[3] + a[2] * b[2] + a[3] * b[1] + (c1 \div Limb)
      c3 == a[2] * b[3] + a[3] * b[2] + (c2 \div Limb)
      c4 == a[3] * b[3] + (c3 \div Limb)
  IN <<c0 % Limb, c1 % Limb, c2 % Limb, c3 % Limb, c4 % Limb, c4 \div Limb>>

\* number of significant bits of a six-limb number
RECURSIVE LimbsBitLen(_, _)
LimbsBitLen(p, t) ==
  IF t = 0 THEN 0
  ELSE IF p[t] # 0 THEN 12 * (t - 1) + BitLen(p[t])
  ELSE LimbsBitLen(p, t - 1)

\* The low limb of p after rounding p to 53 significant bits, ties to even.
\* At most 11 bits are dropped (p < 2^64), all of them in the low limb; the
\* result may be 4096, a carry into the next limb.
RoundLow(p) ==
  LET drop == LimbsBitLen(p, 6) - 53
  IN IF drop <= 0 THEN p[1]
     ELSE LET unit == Pow2(drop)
              r == p[1] % unit
              kept == p[1] - r
              odd == ((p[1] \div unit) % 2) = 1
              up == (2 * r > unit) \/ (2 * r = unit /\ odd)
          IN IF up THEN kept + unit ELSE kept

\* the low 32 bits of the magnitude of the double nearest to p
LowWord(p) ==
  wrap32(<<(p[2] \div 16) + (p[3] % 256) * 256, RoundLow(p) + (p[2] % 16) * Limb>>)

\* ToInt32(a * z) as its 32 bits, for a normalised word a and a signed z
MulToInt32(a, z) ==
  LET low == LowWord(MulLimbs(Limbs(a), Limbs(z.mag)))
  IN IF z.neg THEN Neg32(low) ELSE low

\* u * w for a byte u and a word w (exact, far below 2^53)
Times(u, w) == <<u * w[1], u * w[2]>>

\* ------------------------------------------------------------------------
\* The mixer (sea.ts:68-138)
\* ------------------------------------------------------------------------
\* let z = wrap32((scale * zetaValue(alpha, beta)) << 3)
gammaFirstStep(alpha, beta) ==
  Shl32(MulToInt32(scale, zetaValue(alpha, beta)), 3)

gammaValue(alpha, beta, u) ==
  LET z1 == gammaFirstStep(alpha, beta)
      z2 == wrap32(Plus(z1, Times(u, grow)))
      z3 == rotL(Xor32(z2, flip), nlShift)
  IN wrap32(And32(z3, collapse))

hashByte(b, u) ==
  LET alpha == rotL(Xor32(b, Num(u)), rotLeftAmount)
      beta == rotR(wrap32(Plus(b, Num(u))), rotRightAmount)
      gamma == gammaValue(alpha, beta, u)
  IN wrap32(Plus(Plus(alpha, beta), gamma))

\* the for loop of roundMix; l holds the loop's variables val and i
RECURSIVE RoundLoop(_, _)
RoundLoop(l, u) ==
  IF l.i < roundsPerByte
  THEN RoundLoop([val |-> hashByte(l.val, u), i |-> l.i + 1], u)
  ELSE l.val

roundMix(b, u) == RoundLoop([val |-> b, i |-> 0], u)

\* the for loop of entangle; l holds the loop's variables prev and i
RECURSIVE EntangleLoop(_, _, _)
EntangleLoop(l, u, args) ==
  IF l.i < Len(args)
  THEN EntangleLoop([prev |-> roundMix(wrap32(Plus(l.prev, args[l.i + 1])), u),
                     i |-> l.i + 1], u, args)
  ELSE l.prev

entangle(u, args) == EntangleLoop([prev |-> args[1], i |-> 1], u, args)

shiftValueZeroBased(b, i) ==
  IF Len(b) = 0 THEN 0 ELSE b[((i - 1) % Len(b)) + 1]

\* b[i % b.length] || 0 : for an empty b the index is NaN and the read is
\* undefined, which || turns into 0
shiftValue(b, i) == IF Len(b) = 0 THEN 0 ELSE b[(i % Len(b)) + 1]

MixWordAtWithoutShift(st, j, u, k) ==
  [st EXCEPT ![j + 1] = entangle(u, st)]

\* state[j] = entangle(u, state) + k, stored into a Uint32Array (j 0-based)
MixWordAt(st, j, u, k) ==
  [st EXCEPT ![j + 1] = wrap32(Plus(entangle(u, st), Num(k)))]

WordBytesLittleEndian(v) == <<v[2] % 256, v[2] \div 256, v[1] % 256, v[1] \div 256>>

\* the four bytes written for one word: v >> 24, v >> 16, v >> 8, v, each & 0xff
WordBytes(v) == <<v[1] \div 256, v[1] % 256, v[2] \div 256, v[2] % 256>>

\* rb after the forEach over the first n words of st
RECURSIVE SerializeWords(_, _)
SerializeWords(st, n) ==
  IF n = 0 THEN <<>> ELSE SerializeWords(st, n - 1) \o WordBytes(st[n])

SerializeAllButLast(st) == SerializeWords(st, Len(st) - 1)

Serialize(st) == SerializeWords(st, Len(st))

\* the whole of sea256Raw as a function of its arguments and of the table it
\* clones: the inner loop over the words, the loop over the bytes, the buffer
RECURSIVE WordLoop(_, _, _)
WordLoop(l, ub, kb) ==
  IF l.j < Len(l.st)
  THEN WordLoop([st |-> MixWordAt(l.st, l.j, ub, kb), j |-> l.j + 1], ub, kb)
  ELSE l.st

RECURSIVE ByteLoop(_, _, _)
ByteLoop(l, bs, ky) ==
  IF l.pos < Len(bs)
  THEN ByteLoop([st |-> WordLoop([st |-> l.st, j |-> 0], bs[l.pos + 1],
                                 shiftValue(ky, l.i)),
                 i |-> l.i + 1, pos |-> l.pos + 1], bs, ky)
  ELSE l.st

sea256Raw(table, bs, ky) ==
  Serialize(ByteLoop([st |-> table, i |-> 1, pos |-> 0], bs, ky))

\* ------------------------------------------------------------------------
\* Strings and buffers of the harness (hashTester.ts)
\*
\* A string is the sequence of its code points; a hex string is the sequence
\* of the values 0..15 of its digits; a Buffer is the sequence of its bytes.
\* ------------------------------------------------------------------------
\* Buffer.from(hex, "hex"): one byte per pair of digits, a trailing odd digit
\* is dropped
HexDecode(hex) ==
  [n \in 1..(Len(hex) \div 2) |-> hex[2 * n - 1] * 16 + hex[2 * n]]

\* buf.toString("hex")
RECURSIVE HexEncode(_)
HexEncode(buf) ==
  IF buf = <<>> THEN <<>>
  ELSE <<buf[1] \div 16, buf[1] % 16>> \o HexEncode(Tail(buf))

\* Buffer.from(s, "utf8"), one code point after the other
Utf8EncodePoint(c) ==
  IF c < 128 THEN <<c>>
  ELSE IF c < 2048 THEN <<192 + (c \div 64), 128 + (c % 64)>>
  ELSE IF c < 65536
    THEN <<224 + (c \div 4096), 128 + ((c \div 64) % 64), 128 + (c % 64)>>
  ELSE <<240 + (c \div 262144), 128 + ((c \div 4096) % 64),
         128 + ((c \div 64) % 64), 128 + (c % 64)>>

RECURSIVE Utf8Encode(_)
Utf8Encode(str) ==
  IF str = <<>> THEN <<>> ELSE Utf8EncodePoint(str[1]) \o Utf8Encode(Tail(str))

\* s.length: UTF-16 code units
RECURSIVE StrLength(_)
StrLength(str) ==
  IF str = <<>> THEN 0
  ELSE (IF str[1] >= 65536 THEN 2 ELSE 1) + StrLength(Tail(str))

Replacement == 65533   \* U+FFFD

\* buf.toString("utf8"): the decoder replaces every maximal ill-formed part
\* by U+FFFD.  d holds the decoder's position and pending sequence: the
\* bytes still needed, the code point so far and the range allowed for the
\* next continuation byte.
RECURSIVE Utf8DecodeLoop(_, _)
Utf8DecodeLoop(d, buf) ==
  IF d.n > Len(buf)
  THEN IF d.need > 0 THEN Append(d.out, Replacement) ELSE d.out
  ELSE
    LET b == buf[d.n]
        fresh(o, n) == [n |-> n, need |-> 0, cp |-> 0, lo |-> 128, hi |-> 191,
                        out |-> o]
        lead(need, cp, lo, hi) ==
          [n |-> d.n + 1, need |-> need, cp |-> cp, lo |-> lo, hi |-> hi,
           out |-> d.out]
    IN IF d.need = 0
       THEN IF b < 128 THEN Utf8DecodeLoop(fresh(Append(d.out, b), d.n + 1), buf)
            ELSE IF b >= 194 /\ b <= 223
              THEN Utf8DecodeLoop(lead(1, b % 32, 128, 191), buf)
            ELSE IF b >= 224 /\ b <= 239
              THEN Utf8DecodeLoop(lead(2, b % 16, IF b = 224 THEN 160 ELSE 128,
                                       IF b = 237 THEN 159 ELSE 191), buf)
            ELSE IF b >= 240 /\ b <= 244
              THEN Utf8DecodeLoop(lead(3, b % 8, IF b = 240 THEN 144 ELSE 128,
                                       IF b = 244 THEN 143 ELSE 191), buf)
            ELSE Utf8DecodeLoop(fresh(Append(d.out, Replacement), d.n + 1), buf)
       ELSE IF b < d.lo \/ b > d.hi
         \* the pending sequence is ill-formed; this byte is looked at again
         THEN Utf8DecodeLoop(fresh(Append(d.out, Replacement), d.n), buf)
       ELSE IF d.need = 1
         THEN Utf8DecodeLoop(fresh(Append(d.out, d.cp * 64 + (b % 64)), d.n + 1),
                             buf)
       ELSE Utf8DecodeLoop([n |-> d.n + 1, need |-> d.need - 1,
                            cp |-> d.cp * 64 + (b % 64), lo |-> 128, hi |-> 191,
                            out |-> d.out], buf)

Utf8Decode(buf) ==
  Utf8DecodeLoop([n |-> 1, need |-> 0, cp |-> 0, lo |-> 128, hi |-> 191,
                  out |-> <<>>], buf)

\* buf[n] read as an operand of ^ (n 0-based): undefined counts as 0
ByteAt(buf, n) == IF n < Len(buf) THEN buf[n + 1] ELSE 0

\* while (xor) { dist++; xor &= xor - 1 }
RECURSIVE PopLoop(_)
PopLoop(l) ==
  IF l.xor # 0
  THEN PopLoop([dist |-> l.dist + 1, xor |-> AndBits(l.xor, l.xor - 1, 8)])
  ELSE l.dist

\* i % 0 is NaN
NaN == 0 - 1

\* flipBit (hashTester.ts:20-26); a write at an index that is not in the
\* buffer (past its end, or NaN) leaves the bytes as they are
flipBit(input, bitPos) ==
  LET buf == Utf8Encode(input)
      byteIndex == bitPos \div 8
      bitIndex == bitPos % 8
      flipped == IF bitPos # NaN /\ byteIndex < Len(buf)
                 THEN [buf EXCEPT ![byteIndex + 1] =
                         XorBits(buf[byteIndex + 1], Pow2(bitIndex), 8)]
                 ELSE buf
  IN Utf8Decode(flipped)

\* hammingDistance (hashTester.ts:29-41): the loop runs over buf1
RECURSIVE HammingLoop(_, _, _)
HammingLoop(l, buf1, buf2) ==
  IF l.i < Len(buf1)
  THEN HammingLoop([i |-> l.i + 1,
                    dist |-> PopLoop([dist |-> l.dist,
                                      xor |-> XorBits(ByteAt(buf1, l.i),
                                                      ByteAt(buf2, l.i), 8)])],
                   buf1, buf2)
  ELSE l.dist

hammingDistance(hex1, hex2) ==
  HammingLoop([i |-> 0, dist |-> 0], HexDecode(hex1), HexDecode(hex2))

\* bitDiff (hashTester.ts:44-61): the loop runs to the longer length
Max(x, y) == IF x >= y THEN x ELSE y
Min(x, y) == IF x <= y THEN x ELSE y

RECURSIVE BitDiffLoop(_, _, _, _)
BitDiffLoop(l, a, b, maxLen) ==
  IF l.i < maxLen
  THEN LET ai == IF l.i < Len(a) THEN a[l.i + 1] ELSE 0
           bi == IF l.i < Len(b) THEN b[l.i + 1] ELSE 0
       IN BitDiffLoop([i |-> l.i + 1,
                       dist |-> PopLoop([dist |-> l.dist,
                                         xor |-> XorBits(ai, bi, 8)])],
                      a, b, maxLen)
  ELSE l.dist

bitDiffTruncating(hexA, hexB) ==
  LET a == HexDecode(hexA)
      b == HexDecode(hexB)
  IN BitDiffLoop([i |-> 0, dist |-> 0], a, b, Min(Len(a), Len(b)))

bitDiff(hexA, hexB) ==
  LET a == HexDecode(hexA)
      b == HexDecode(hexB)
  IN BitDiffLoop([i |-> 0, dist |-> 0], a, b, Max(Len(a), Len(b)))

\* ------------------------------------------------------------------------
\* State
\* ------------------------------------------------------------------------
VARIABLES
  heap,     \* the Uint32Arrays that exist, by reference
  state,    \* sea256Raw: the reference held by `state`
  bytes,    \* sea256Raw: argument
  key,      \* sea256Raw: argument
  i,        \* sea256Raw: 1-based index of the byte being processed
  pos,      \* sea256Raw: number of bytes the for-of loop has consumed
  u,        \* sea256Raw: the current byte
  k,        \* sea256Raw: the current caesar shift
  j,        \* sea256Raw: index of the word to update next
  rb,       \* sea256Raw: the returned buffer
  pc,       \* sea256Raw: position in the function
  before,   \* history: the words of `state` when the current byte began
  calls,    \* history: invocations of sea256Raw that have returned
  frame,    \* HashTester: the method running, its arguments and locals
  ret       \* HashTester: what the method returned

seaVars == <<heap, state, bytes, key, i, pos, u, k, j, rb, pc, before, calls>>
testerVars == <<frame, ret>>
vars == <<heap, state, bytes, key, i, pos, u, k, j, rb, pc, before, calls,
          frame, ret>>

NoFrame == [method |-> "none", pc |-> "idle"]
NoValue == [threw |-> FALSE, value |-> "none"]

\* config.initialValues.slice() returns a reference to a fresh array
SliceAliased(ref) == ref
Slice(ref) == "copy"

\* ------------------------------------------------------------------------
\* sea256Raw (sea.ts:142-169)
\* ------------------------------------------------------------------------
Init ==
  /\ heap = [r \in {"initialValues", "copy"} |->
              IF r = "initialValues" THEN InitialValues ELSE <<>>]
  /\ state = "none"
  /\ bytes = <<>>
  /\ key = <<>>
  /\ i = 0
  /\ pos = 0
  /\ u = 0
  /\ k = 0
  /\ j = 0
  /\ rb = <<>>
  /\ pc = "idle"
  /\ before = <<>>
  /\ calls = 0
  /\ frame = NoFrame
  /\ ret = NoValue

\* entry: const state = config.initialValues.slice(); let i = 1
Call(b, ky) ==
  /\ pc = "idle"
  /\ calls < MaxCalls
  /\ bytes' = b
  /\ key' = ky
  /\ state' = Slice("initialValues")
  /\ heap' = [heap EXCEPT ![state'] = heap["initialValues"]]
  /\ i' = 1
  /\ pos' = 0
  /\ pc' = "bytes"
  /\ before' = heap["initialValues"]
  /\ UNCHANGED <<u, k, j, rb, calls, frame, ret>>

\* for (const u of bytes) { const k = shiftValue(key, i); ... j = 0
NextByte ==
  /\ pc = "bytes"
  /\ pos < Len(bytes)
  /\ u' = bytes[pos + 1]
  /\ k' = shiftValue(key, i)
  /\ j' = 0
  /\ pc' = "words"
  /\ before' = heap[state]
  /\ UNCHANGED <<heap, state, bytes, key, i, pos, rb, calls, frame, ret>>

\* state[j] = entangle(u, state) + k; j++
MixWord ==
  /\ pc = "words"
  /\ j < Len(heap[state])
  /\ heap' = [heap EXCEPT ![state] = MixWordAt(heap[state], j, u, k)]
  /\ j' = j + 1
  /\ UNCHANGED <<state, bytes, key, i, pos, u, k, rb, pc, before, calls, frame, ret>>

\* the inner loop ends: i++ and the for-of loop advances
EndByte ==
  /\ pc = "words"
  /\ j >= Len(heap[state])
  /\ i' = i + 1
  /\ pos' = pos + 1
  /\ pc' = "bytes"
  /\ UNCHANGED <<heap, state, bytes, key, u, k, j, rb, before, calls, frame, ret>>

\* rb = Buffer.alloc(state.length * 4); state.forEach(...); return rb
Finish ==
  /\ pc = "bytes"
  /\ pos >= Len(bytes)
  /\ rb' = Serialize(heap[state])
  /\ pc' = "done"
  /\ UNCHANGED <<heap, state, bytes, key, i, pos, u, k, j, before, calls, frame, ret>>

\* the caller takes rb; the locals of the call are gone
Return ==
  /\ pc = "done"
  /\ pc' = "idle"
  /\ state' = "none"
  /\ bytes' = <<>>
  /\ key' = <<>>
  /\ i' = 0
  /\ pos' = 0
  /\ u' = 0
  /\ k' = 0
  /\ j' = 0
  /\ rb' = <<>>
  /\ before' = <<>>
  /\ heap' = [heap EXCEPT !["copy"] = <<>>]
  /\ calls' = calls + 1
  /\ UNCHANGED <<frame, ret>>

Next ==
  \/ \E b \in Inputs, ky \in Keys : Call(b, ky)
  \/ NextByte
  \/ MixWord
  \/ EndByte
  \/ Finish
  \/ Return

Spec == Init /\ [][Next]_vars

\* ------------------------------------------------------------------------
\* HashTester (hashTester.ts:10-142)
\*
\* hashFn is whatever function the constructor was given.  It returns hex
\* digests of one fixed length; which one it returns for a given call is
\* left open.
\* ------------------------------------------------------------------------
Digests ==
  { HexEncode(Serialize(InitialValues)),
    HexEncode([n \in 1..(4 * Len(InitialValues)) |-> 0]),
    HexEncode([n \in 1..(4 * Len(InitialValues)) |-> 255]) }

\* the targets handed to preimage: digests, and a string hashFn never returns
Targets == Digests \cup {HexEncode(<<1, 2>>)}

\* the hex strings handed to hammingDistance and bitDiff
HexStrings ==
  {HexEncode(b) : b \in SeqsUpTo({0, 255}, 2) \cup {<<0, 0, 0, 0>>, <<60, 165, 15>>}}
    \cup {<<15, 15, 15>>}

Value(v) == [threw |-> FALSE, value |-> v]

TesterIdle == frame.method = "none"

\* static hammingDistance(hex1, hex2)
HammingDistanceCall(hex1, hex2) ==
  /\ TesterIdle
  /\ frame' = [method |-> "hammingDistance", pc |-> "returned",
                hex1 |-> hex1, hex2 |-> hex2]
  /\ ret' = Value(hammingDistance(hex1, hex2))
  /\ UNCHANGED seaVars

\* static bitDiff(hexA, hexB)
BitDiffCall(hexA, hexB) ==
  /\ TesterIdle
  /\ frame' = [method |-> "bitDiff", pc |-> "returned",
                hexA |-> hexA, hexB |-> hexB]
  /\ ret' = Value(bitDiff(hexA, hexB))
  /\ UNCHANGED seaVars

\* flipBit(input, bitPos), as avalanche calls it with a random position
FlipBitCall(input, bitPos) ==
  /\ TesterIdle
  /\ frame' = [method |-> "flipBit", pc |-> "returned",
                input |-> input, bitPos |-> bitPos]
  /\ ret' = Value(flipBit(input, bitPos))
  /\ UNCHANGED seaVars

\* Buffer.from(originalHash, "hex").length * 8
HashBitsWithoutTimes8(hex) == Len(HexDecode(hex))
HashBits(hex) == Len(HexDecode(hex)) * 8

\* i % (input.length * 8)
SweepPosition(input, n) ==
  IF StrLength(input) = 0 THEN NaN ELSE n % (StrLength(input) * 8)

\* diffusion(input, flips): entry, up to the loop
DiffusionCall(input, flips) ==
  /\ TesterIdle
  /\ \E originalHash \in Digests :
       frame' = [method |-> "diffusion", pc |-> "loop",
                 input |-> input, flips |-> flips,
                 originalHash |-> originalHash,
                 hashBits |-> HashBits(originalHash),
                 totalDiffBits |-> 0, i |-> 0, flipped |-> <<>>]
  /\ UNCHANGED <<ret, seaVars>>

\* one iteration of the loop of diffusion
DiffusionStep ==
  /\ frame.method = "diffusion"
  /\ frame.pc = "loop"
  /\ frame.i < frame.flips
  /\ \E newHash \in Digests :
       frame' = [frame EXCEPT
                   !.flipped = flipBit(frame.input,
                                       SweepPosition(frame.input, frame.i)),
                   !.totalDiffBits = @ + bitDiff(frame.originalHash, newHash),
                   !.i = @ + 1]
  /\ UNCHANGED <<ret, seaVars>>

\* avgDiffBits = totalDiffBits / flips; return avgDiffBits / hashBits.
\* The quotient of quotients is kept as its three integers.
DiffusionReturn ==
  /\ frame.method = "diffusion"
  /\ frame.pc = "loop"
  /\ frame.i >= frame.flips
  /\ frame' = [frame EXCEPT !.pc = "returned"]
  /\ ret' = Value([num |-> frame.totalDiffBits, den1 |-> frame.flips,
                    den2 |-> frame.hashBits])
  /\ UNCHANGED seaVars

\* the loop condition of preimage
PreimageContinuesInclusive(n, attempts) == n <= attempts
PreimageContinues(n, attempts) == n < attempts

\* preimage(output, inputLength, attempts): entry
PreimageCall(output, inputLength, attempts) ==
  /\ TesterIdle
  /\ frame' = [method |-> "preimage", pc |-> "loop", output |-> output,
                inputLength |-> inputLength, attempts |-> attempts, i |-> 0,
                hashed |-> <<>>]
  /\ UNCHANGED <<ret, seaVars>>

\* one iteration of the loop of preimage; hashed is the history of the
\* digests hashFn has returned to this call
PreimageTry ==
  /\ frame.method = "preimage"
  /\ frame.pc = "loop"
  /\ PreimageContinues(frame.i, frame.attempts)
  /\ \E rand \in RandomBuffers(frame.inputLength), digest \in Digests :
       LET candidate == Utf8Decode(rand)
       IN IF digest = frame.output
          THEN /\ frame' = [frame EXCEPT !.pc = "returned",
                                          !.hashed = Append(@, digest)]
               /\ ret' = Value([found |-> TRUE, candidate |-> candidate,
                                 tries |-> frame.i + 1])
          ELSE /\ frame' = [frame EXCEPT !.i = @ + 1,
                                          !.hashed = Append(@, digest)]
               /\ ret' = ret
  /\ UNCHANGED seaVars

\* the loop of preimage ends without a match
PreimageExhausted ==
  /\ frame.method = "preimage"
  /\ frame.pc = "loop"
  /\ ~PreimageContinues(frame.i, frame.attempts)
  /\ frame' = [frame EXCEPT !.pc = "returned"]
  /\ ret' = Value([found |-> FALSE, tries |-> frame.attempts])
  /\ UNCHANGED seaVars

\* if (seen.has(hash)) collisions++
CollisionsAfterInverted(seen, collisions, hash) ==
  IF hash \in seen THEN collisions ELSE collisions + 1
CollisionsAfter(seen, collisions, hash) ==
  IF hash \in seen THEN collisions + 1 ELSE collisions

\* else seen.add(hash)
SeenAfter(seen, hash) == IF hash \in seen THEN seen ELSE seen \cup {hash}

\* collision(iterations): entry
CollisionCall(iterations) ==
  /\ TesterIdle
  /\ frame' = [method |-> "collision", pc |-> "loop",
                iterations |-> iterations, seen |-> {}, collisions |-> 0,
                i |-> 0, input |-> <<>>]
  /\ UNCHANGED <<ret, seaVars>>

\* one iteration of the loop of collision
CollisionStep ==
  /\ frame.method = "collision"
  /\ frame.pc = "loop"
  /\ frame.i < frame.iterations
  /\ \E rand \in RandomBuffers(16 \div 2), hash \in Digests :
       frame' = [frame EXCEPT
                   !.input = HexEncode(rand),
                   !.collisions = CollisionsAfter(frame.seen, @, hash),
                   !.seen = SeenAfter(@, hash),
                   !.i = @ + 1]
  /\ UNCHANGED <<ret, seaVars>>

\* return { collisions, iterations }
CollisionReturn ==
  /\ frame.method = "collision"
  /\ frame.pc = "loop"
  /\ frame.i >= frame.iterations
  /\ frame' = [frame EXCEPT !.pc = "returned"]
  /\ ret' = Value([collisions |-> frame.collisions,
                    iterations |-> frame.iterations])
  /\ UNCHANGED seaVars

\* the caller takes the result; the frame is gone
TesterReturn ==
  /\ frame.pc = "returned"
  /\ frame' = NoFrame
  /\ ret' = NoValue
  /\ UNCHANGED seaVars

TesterNext ==
  \/ \E h1 \in HexStrings, h2 \in HexStrings : HammingDistanceCall(h1, h2)
  \/ \E hA \in HexStrings, hB \in HexStrings : BitDiffCall(hA, hB)
  \/ \E str \in Strings, bitPos \in 0..(8 * 3 * MaxChars - 1) :
       /\ bitPos < 8 * Len(Utf8Encode(str))
       /\ FlipBitCall(str, bitPos)
  \/ \E str \in Strings, flips \in 0..MaxTrials : DiffusionCall(str, flips)
  \/ DiffusionStep
  \/ DiffusionReturn
  \/ \E output \in Targets, inputLength \in 0..MaxLen, attempts \in 0..MaxTrials :
       PreimageCall(output, inputLength, attempts)
  \/ PreimageTry
  \/ PreimageExhausted
  \/ \E iterations \in 0..MaxTrials : CollisionCall(iterations)
  \/ CollisionStep
  \/ CollisionReturn
  \/ TesterReturn

TesterSpec == Init /\ [][TesterNext]_vars

\* ------------------------------------------------------------------------
\* gammaValue on its own (sea.ts:68-88)
\* ------------------------------------------------------------------------
\* the words tried for alpha and beta, and the bytes tried for u
GammaWords ==
  { Word(0, 0), Word(0, 1), Word(0, 2), Word(0, 65535), Word(64, 0),
    Word(32768, 0), Word(65535, 65535) } \cup {InitialValues[n] : n \in 1..4}
GammaBytes == InputBytes \cup {0}

\* gammaValue(alpha, beta, u); z is the local z after its first assignment
GammaValueCall(alpha, beta, ub) ==
  /\ TesterIdle
  /\ pc = "idle"
  /\ frame' = [method |-> "gammaValue", pc |-> "returned", alpha |-> alpha,
                beta |-> beta, u |-> ub, z |-> gammaFirstStep(alpha, beta)]
  /\ ret' = Value(gammaValue(alpha, beta, ub))
  /\ UNCHANGED seaVars

\* hashByte takes gamma; the locals of the call are gone
GammaValueReturn ==
  /\ frame.method = "gammaValue"
  /\ frame.pc = "returned"
  /\ frame' = NoFrame
  /\ ret' = NoValue
  /\ UNCHANGED seaVars

GammaNext ==
  \/ \E alpha \in GammaWords, beta \in GammaWords, ub \in GammaBytes :
       GammaValueCall(alpha, beta, ub)
  \/ GammaValueReturn

GammaSpec == Init /\ [][GammaNext]_vars

\* ------------------------------------------------------------------------
\* Properties of sea256Raw
\* ------------------------------------------------------------------------
Returned == pc = "done"

\* C1 as stated: the digest is 28 bytes long, the working state 7 words.
C1_DigestIs28Bytes ==
  /\ state # "none" => Len(heap[state]) = 7
  /\ Returned => Len(rb) = 28

\* C1 amended: for every input and key the digest is 32 bytes long: the
\* working state has 8 words and each is serialized to 4 bytes in 0..255.
C1_DigestIs32Bytes ==
  /\ state # "none" => Len(heap[state]) = 8
  /\ Returned => /\ Len(rb) = 32
                  /\ \A n \in 1..Len(rb) : rb[n] \in 0..255

C1_Witness == Returned /\ Len(bytes) = 2 /\ Len(rb) = 32

\* C3: for every key the empty input runs no mixing step, and the digest is
\* the big-endian serialization of the initial words: bytes 4n..4n+3 read
\* most significant first give back initial word n.
C3_EmptyInput ==
  bytes = <<>> =>
    /\ pc # "words"
    /\ state # "none" => heap[state] = InitialValues
    /\ Returned =>
         \A n \in 0..(Len(InitialValues) - 1) :
           /\ rb[4 * n + 1] * 256 + rb[4 * n + 2] = InitialValues[n + 1][1]
           /\ rb[4 * n + 3] * 256 + rb[4 * n + 4] = InitialValues[n + 1][2]

C3_Witness == Returned /\ bytes = <<>> /\ key # <<>> /\ rb[3] = 160

\* C8: whatever invocations ran before, the table of initial values holds
\* its original words, and a returned digest is the one the original table
\* gives for these arguments.
C8_TableUntouched ==
  /\ heap["initialValues"] = InitialValues
  /\ Returned => rb = sea256Raw(InitialValues, bytes, key)

C8_Witness ==
  Returned /\ calls >= 1 /\ bytes # <<>> /\ heap["copy"] # InitialValues

\* C10: within one byte the words are updated in index order; the word just
\* written is wrap32(entangle(u, S) + k) for S made of the new values of
\* the words before it and the start-of-byte values of it and the words
\* after it, and the words not yet reached still hold their old values.
C10_SequentialUpdate ==
  (pc = "words" /\ j > 0) =>
    LET cur == heap[state]
        S == [n \in 1..Len(cur) |-> IF n < j THEN cur[n] ELSE before[n]]
    IN /\ cur[j] = wrap32(Plus(entangle(u, S), Num(k)))
       /\ \A n \in (j + 1)..Len(cur) : cur[n] = before[n]

C10_Witness ==
  pc = "words" /\ j = 3 /\ pos = 1 /\ k > 0
  /\ heap[state][1] # before[1] /\ heap[state][4] = before[4]

\* C12: with an empty key the hash does not fail: the keystream byte is 0 at
\* every position and the digest is the one of the same input under the key
\* of one zero byte; with a non-empty key the keystream byte at the 1-based
\* position i is key[i mod len(key)].
C12_Keystream ==
  /\ pc = "words" =>
       /\ i = pos + 1
       /\ k = IF key = <<>> THEN 0 ELSE key[(i % Len(key)) + 1]
  /\ (Returned /\ key = <<>>) =>
       /\ Len(rb) = 4 * Len(InitialValues)
       /\ rb = sea256Raw(InitialValues, bytes, <<0>>)

C12_Witness ==
  Returned /\ key = <<>> /\ Len(bytes) = 2 /\ heap[state] # InitialValues

\* ------------------------------------------------------------------------
\* Properties of HashTester
\* ------------------------------------------------------------------------
TesterReturned(method) == frame.method = method /\ frame.pc = "returned"

Bit(x, n) == (x \div Pow2(n)) % 2

\* the number of bit positions in which two buffers of one length differ
DifferingBits(a, b) ==
  Cardinality({p \in (1..Len(a)) \X (0..7) : Bit(a[p[1]], p[2]) # Bit(b[p[1]], p[2])})

\* a buffer followed by zero bytes up to length n
ZeroExtend(a, n) == [m \in 1..n |-> IF m <= Len(a) THEN a[m] ELSE 0]

\* C2: hammingDistance fails with LengthMismatch when the two buffers differ
\* in length, and returns the number of differing bits only when they have
\* the same length.
C2_LengthMismatch ==
  TesterReturned("hammingDistance") =>
    LET a == HexDecode(frame.hex1)
        b == HexDecode(frame.hex2)
    IN IF Len(a) # Len(b) THEN ret.threw
       ELSE ret = Value(DifferingBits(a, b))

\* C4: preimage evaluates the hash at most `attempts` times, stops at the
\* first digest equal to the target and then returns found with tries the
\* 1-based index of that candidate, and otherwise returns not found with
\* tries = attempts; it never throws.
C4_PreimageBounded ==
  frame.method = "preimage" =>
    LET evaluations == Len(frame.hashed)
        misses == {n \in 1..evaluations : frame.hashed[n] # frame.output}
    IN /\ evaluations <= frame.attempts
       /\ (1..(evaluations - 1)) \subseteq misses
       /\ frame.pc = "loop" => evaluations = frame.i /\ evaluations \in misses \cup {0}
       /\ frame.pc = "returned" =>
            /\ ~ret.threw
            /\ IF ret.value.found
               THEN /\ ret.value.tries = evaluations
                    /\ ret.value.tries >= 1
                    /\ ret.value.tries <= frame.attempts
                    /\ frame.hashed[ret.value.tries] = frame.output
               ELSE /\ ret.value.tries = frame.attempts
                    /\ evaluations = frame.attempts
                    /\ evaluations \in misses \cup {0}

C4_Witness ==
  /\ TesterReturned("preimage")
  /\ frame.attempts = 3
  /\ ret.value.found
  /\ ret.value.tries = 2

\* C5: in collision, after every iteration the counter equals the number of
\* iterations processed minus the number of distinct digests seen; the
\* returned collisions are at most the iterations, and the returned
\* iterations are the argument.
C5_CollisionCount ==
  frame.method = "collision" =>
    /\ frame.collisions = frame.i - Cardinality(frame.seen)
    /\ frame.i <= frame.iterations
    /\ frame.pc = "returned" =>
         /\ ret.value.collisions = frame.collisions
         /\ ret.value.collisions <= ret.value.iterations
         /\ ret.value.iterations = frame.iterations
         /\ frame.i = frame.iterations

C5_Witness ==
  /\ TesterReturned("collision")
  /\ ret.value.iterations = 3
  /\ ret.value.collisions = 1
  /\ Cardinality(frame.seen) = 2

\* C6: for a non-empty input and flips > 0, diffusion returns a value in
\* [0, 1]: the summed bit differences, divided by flips and by the number of
\* bits of the baseline digest, are neither negative nor above 1.
C6_DiffusionInUnitInterval ==
  (TesterReturned("diffusion") /\ frame.input # <<>> /\ frame.flips > 0) =>
    /\ ~ret.threw
    /\ ret.value.den1 > 0
    /\ ret.value.den2 > 0
    /\ ret.value.num >= 0
    /\ ret.value.num <= ret.value.den1 * ret.value.den2

C6_Witness ==
  /\ TesterReturned("diffusion")
  /\ frame.input # <<>>
  /\ frame.flips = 2
  /\ ret.value.num = 2 * 256

\* C7: bitDiff is the number of differing bits after the shorter buffer is
\* extended with zero bytes to the length of the longer; it is symmetric;
\* 4 zero bytes against 2 zero bytes give 0 and against ff ff give 16.
C7_BitDiffZeroExtends ==
  TesterReturned("bitDiff") =>
    LET a == HexDecode(frame.hexA)
        b == HexDecode(frame.hexB)
        n == Max(Len(a), Len(b))
    IN /\ ret = Value(DifferingBits(ZeroExtend(a, n), ZeroExtend(b, n)))
       /\ ret.value = bitDiff(frame.hexB, frame.hexA)
       /\ (a = <<0, 0, 0, 0>> /\ b = <<0, 0>>) => ret.value = 0
       /\ (a = <<0, 0, 0, 0>> /\ b = <<255, 255>>) => ret.value = 16

C7_Witness ==
  /\ TesterReturned("bitDiff")
  /\ HexDecode(frame.hexA) = <<0, 0, 0, 0>>
  /\ HexDecode(frame.hexB) = <<255, 255>>
  /\ ret.value = 16

\* C9: for a bit position inside the input, the bytes of the string flipBit
\* returns are as many as the bytes of the input and differ from them in
\* exactly one bit, which lies in byte floor(bitPos / 8).
C9_FlipsExactlyOneBit ==
  (TesterReturned("flipBit") /\ frame.bitPos < 8 * Len(Utf8Encode(frame.input))) =>
    LET in == Utf8Encode(frame.input)
        out == Utf8Encode(ret.value)
        byteIndex == frame.bitPos \div 8
    IN /\ Len(out) = Len(in)
       /\ DifferingBits(in, out) = 1
       /\ out[byteIndex + 1] # in[byteIndex + 1]

\* ------------------------------------------------------------------------
\* Properties of gammaValue
\* ------------------------------------------------------------------------
\* the low 32 bits of a six-limb product, none of its bits rounded away
ExactLowWord(p) ==
  wrap32(<<(p[2] \div 16) + (p[3] % 256) * 256, p[1] + (p[2] % 16) * Limb>>)

\* (((scale * zeta) mod 2^32) * 8) mod 2^32 for the integer
\* zeta = (alpha xor beta) + (alpha and beta)
ExactFirstStep(alpha, beta) ==
  LET zeta == wrap32(Plus(Xor32(alpha, beta), And32(alpha, beta)))
  IN Shl32(ExactLowWord(MulLimbs(Limbs(scale), Limbs(zeta))), 3)

IsWord32(w) == w[1] \in 0..(Half - 1) /\ w[2] \in 0..(Half - 1)

\* C11: every step of gammaValue is exact arithmetic modulo 2^32: the first
\* step is (((scale * zeta) mod 2^32) * 8) mod 2^32 with no low bit of the
\* product lost, and the result lies in [0, 2^32).
C11_ExactModularProduct ==
  TesterReturned("gammaValue") =>
    /\ frame.z = ExactFirstStep(frame.alpha, frame.beta)
    /\ IsWord32(ret.value)

====
